---- MODULE Spec2Model ----
(***************************************************************************)
(* A model of rocker's build execution engine:                             *)
(*   - Build.Run        (src/rocker/build/build.go), the plan executor     *)
(*   - Build.probeCache (src/rocker/build/build.go), the cache probe       *)
(*   - DockerClient.RunContainer (src/rocker/build/client.go), the         *)
(*     attach / wait / interrupt protocol of a live container              *)
(*   - DockerClient.EnsureContainer (src/rocker/build/client.go), with     *)
(*     EnsureImage, PullImage and the provisioners of Build that call it   *)
(* Each part has its own specification (SpecRun, SpecProbe, SpecRC,        *)
(* SpecEnsure, and their fair versions); the variables of the other parts  *)
(* stay at their initial values.                                           *)
(***************************************************************************)
EXTENDS Integers, Sequences, FiniteSets, TLC

\* ------------------------------------------------------------------ bounds
\* Longest plan handed to Build.Run.
MaxPlan == 2
\* Most commands one Execute leaves in State.InjectCommands.
MaxInject == 2
\* Most commands injected during one Run, over all steps.
MaxTotalInject == 3
\* Most ENV-style mutations of Config.Env during one Run.
MaxEnv == 1
\* Most probeCache calls along one lineage of States.
MaxProbes == 2

VARIABLES
    \* Build.Run
    plan,         \* the local slice `plan`: a sequence of command ids
    k,            \* the loop index of Run (0-based, as in the code)
    state,        \* b.state: [Env, InjectCommands]
    runPc,        \* "running" | "returned"
    runErr,       \* the error Run returned (NoErr: nil)
    calls,        \* every method Run invoked on a command, in order
    nextId,       \* the next fresh command id (for parsed ONBUILD commands)
    origLen,      \* the length of the plan Run was called with
    injectedBy,   \* command id -> the commands its Execute injected
    envKind,      \* which commands implement EnvReplacableCommand
    envLog,       \* the Config.Env of the state each Execute returned, in order
    \* Build.probeCache
    cacheOn,      \* b.cache != nil
    reloadCache,  \* b.cfg.ReloadCache
    store,        \* the cache store: fingerprint -> cached State
    images,       \* the image ids the engine holds
    cur,          \* the State the running command is about to probe
    ProducedSize, \* b.ProducedSize
    VirtualSize,  \* b.VirtualSize
    probePc,      \* "ready" (cur awaits its probe) | "probed"
    history,      \* the probeCache calls so far: arguments, results, effects
    \* DockerClient.RunContainer
    attachStdin,  \* the argument attachStdin
    isTerminalIn, \* term.GetFdInfo(os.Stdin) says stdin is a terminal
    mainPc,       \* where the calling goroutine is
    attachPc,     \* where the attach goroutine (and AttachToContainer) is
    waitPc,       \* where the wait goroutine is
    waitVal,      \* the error the wait goroutine derived from WaitContainer
    selVal,       \* the value the select received from errch
    finished,     \* the number of values buffered in `finished` (cap 1)
    errch,        \* the values buffered in `errch` (cap 1)
    attacherr,    \* the values buffered in `attacherr` (cap 1)
    sigch,        \* the number of signals buffered in `sigch` (cap 1)
    notified,     \* signal.Notify(sigch, os.Interrupt) has been called
    container,    \* "created" | "running" | "exited" | "removed"
    raw,          \* the local terminal is in raw mode
    rcRet,        \* what RunContainer returned ("none": not yet)
    process,      \* "running" | "exit2" (os.Exit(2)) | "killed" (default SIGINT)
    waitZero,     \* WaitContainer has returned status 0 without error
    lateAttachErr,\* AttachToContainer returned its error after waitZero
    seen,         \* what has happened during the call so far (see NothingSeen)
    \* DockerClient.EnsureContainer and the provisioners of Build
    engine,       \* the engine's containers: name -> id (NoContainer: none)
    engineImages, \* the images the engine holds
    nextCid,      \* the id the engine gives the next container it creates
    ec,           \* the calls: caller -> where it is, its arguments and results
    removals,     \* the containers removed from the engine so far
    exports       \* Build.exports

runVars == <<plan, k, state, runPc, runErr, calls, nextId, origLen, injectedBy, envKind,
            envLog>>

probeVars == <<cacheOn, reloadCache, store, images, cur, ProducedSize, VirtualSize,
               probePc, history>>

rcVars == <<attachStdin, isTerminalIn, mainPc, attachPc, waitPc, waitVal, selVal, finished,
            errch, attacherr, sigch, notified, container, raw, rcRet, process,
            waitZero, lateAttachErr, seen>>

ensureVars == <<engine, engineImages, nextCid, ec, removals, exports>>

vars == <<runVars, probeVars, rcVars, ensureVars>>

\* What an action of one part leaves alone: the variables of the other parts.
RunFrame == UNCHANGED <<probeVars, rcVars, ensureVars>>

ProbeFrame == UNCHANGED <<runVars, rcVars, ensureVars>>

RcFrame == UNCHANGED <<runVars, probeVars, ensureVars>>

EnsureFrame == UNCHANGED <<runVars, probeVars, rcVars>>

NoErr == [src |-> "nil", step |-> 0]

StepErr(src, c) == [src |-> src, step |-> c]

\* ---------------------------------------------------------------- helpers
\* The commands <<a, a+1, ..., a+n-1>>.
Fresh(a, n) == [i \in 1..n |-> a + i - 1]

\* ------------------------------------------------------------- Build.Run
\* c.(EnvReplacableCommand): a property of the command's type.
EnvReplacable(c) == IF envKind = "odd" THEN c % 2 = 1 ELSE c % 2 = 0

\* parseOnbuildCommands followed by NewPlan(commands, false): one command
\* of the sub-plan per injected instruction, in the order given.
SubPlanOf(inject) == [i \in 1..Len(inject) |-> inject[i].cmd]

\* The splice with the injected commands written over the steps that
\* follow step k instead of shifting them.
SpliceOverwrite(p, i, subPlan) ==
    SubSeq(p, 1, i + 1) \o subPlan \o SubSeq(p, i + 2 + Len(subPlan), Len(p))

\* The splice with the injected commands put behind the rest of the plan.
SpliceAtEnd(p, i, subPlan) == p \o subPlan

\* tail := append(subPlan, plan[k+1:]...); plan = append(plan[:k+1], tail...)
Splice(p, i, subPlan) ==
    LET tail == subPlan \o SubSeq(p, i + 2, Len(p))
    IN  SubSeq(p, 1, i + 1) \o tail

\* One invocation of a command's method. arg: for ShouldRun its result
\* (1 true, 0 false, -1 error), for ReplaceEnv the environment passed.
Call(op, c, arg) == [op |-> op, step |-> c, arg |-> arg]

\* ReplaceEnv is given the environment Run started with.
RunCallsInitialEnv(c) ==
    <<Call("ShouldRun", c, 1)>>
    \o (IF EnvReplacable(c) THEN <<Call("ReplaceEnv", c, 0)>> ELSE <<>>)
    \o <<Call("Execute", c, 0)>>

\* The calls of one iteration up to and including c.Execute(b).
RunCalls(c) ==
    <<Call("ShouldRun", c, 1)>>
    \o (IF EnvReplacable(c) THEN <<Call("ReplaceEnv", c, state.Env)>> ELSE <<>>)
    \o <<Call("Execute", c, 0)>>

\* The states c.Execute(b) may return: the environment kept or extended,
\* and up to MaxInject raw ONBUILD instructions queued.
ExecResults ==
    {[Env |-> e, InjectCommands |-> [i \in 1..m |-> [raw |-> nextId + i - 1, cmd |-> nextId + i - 1]]] :
        e \in {x \in {state.Env, state.Env + 1} : x <= MaxEnv},
        m \in {x \in 0..MaxInject : (nextId - 1 - origLen) + x <= MaxTotalInject}}

InLoop == runPc = "running" /\ k < Len(plan)

InitRun ==
    /\ \E n \in 1..MaxPlan :
        /\ plan = Fresh(1, n)
        /\ origLen = n
        /\ nextId = n + 1
    /\ k = 0
    /\ state = [Env |-> 0, InjectCommands |-> <<>>]
    /\ runPc = "running"
    /\ runErr = NoErr
    /\ calls = <<>>
    /\ injectedBy = <<>>
    /\ envKind \in {"odd", "even"}
    /\ envLog = <<>>

\* build.go:101-103: ShouldRun returns an error.
StepShouldRunFails ==
    /\ InLoop
    /\ LET c == plan[k + 1] IN
        /\ calls' = Append(calls, Call("ShouldRun", c, -1))
        /\ runErr' = StepErr("ShouldRun", c)
        /\ runPc' = "returned"
    /\ UNCHANGED <<plan, k, state, nextId, origLen, injectedBy, envKind, envLog>>
    /\ RunFrame

\* ShouldRun returns false and the step is executed all the same.
StepSkippedRuns ==
    /\ InLoop
    /\ LET c == plan[k + 1] IN
        /\ calls' = Append(calls, Call("ShouldRun", c, 0)) \o Tail(RunCalls(c))
        /\ \E st \in ExecResults :
            /\ Len(st.InjectCommands) = 0
            /\ state' = st
            /\ envLog' = Append(envLog, [step |-> c, env |-> st.Env])
        /\ k' = k + 1
    /\ UNCHANGED <<plan, runPc, runErr, nextId, origLen, injectedBy, envKind>>
    /\ RunFrame

\* ShouldRun returns false and the loop index is left where it was.
StepSkippedStays ==
    /\ InLoop
    /\ LET c == plan[k + 1] IN
        calls' = Append(calls, Call("ShouldRun", c, 0))
    /\ UNCHANGED <<plan, k, state, runPc, runErr, nextId, origLen, injectedBy, envKind,
                   envLog>>
    /\ RunFrame

\* build.go:104-106: ShouldRun returns false; continue.
StepSkipped ==
    /\ InLoop
    /\ LET c == plan[k + 1] IN
        /\ calls' = Append(calls, Call("ShouldRun", c, 0))
        /\ k' = k + 1
    /\ UNCHANGED <<plan, state, runPc, runErr, nextId, origLen, injectedBy, envKind, envLog>>
    /\ RunFrame

\* Execute's error is stored in err but Run goes on to the next step.
StepExecuteFailsContinues ==
    /\ InLoop
    /\ LET c == plan[k + 1] IN
        /\ calls' = calls \o RunCalls(c)
        /\ \E st \in ExecResults :
            /\ Len(st.InjectCommands) = 0
            /\ state' = st
            /\ envLog' = Append(envLog, [step |-> c, env |-> st.Env])
        /\ runErr' = StepErr("Execute", c)
        /\ k' = k + 1
    /\ UNCHANGED <<plan, runPc, nextId, origLen, injectedBy, envKind>>
    /\ RunFrame

\* build.go:115-117: Execute returns an error (b.state is assigned first).
StepExecuteFails ==
    /\ InLoop
    /\ LET c == plan[k + 1] IN
        /\ calls' = calls \o RunCalls(c)
        /\ \E st \in ExecResults :
            /\ state' = st
            /\ envLog' = Append(envLog, [step |-> c, env |-> st.Env])
        /\ runErr' = StepErr("Execute", c)
        /\ runPc' = "returned"
    /\ UNCHANGED <<plan, k, nextId, origLen, injectedBy, envKind>>
    /\ RunFrame

\* build.go:115-125: Execute succeeds and injects nothing.
StepExecuted ==
    /\ InLoop
    /\ LET c == plan[k + 1] IN
        /\ calls' = calls \o RunCalls(c)
        /\ \E st \in ExecResults :
            /\ Len(st.InjectCommands) = 0
            /\ state' = st
            /\ envLog' = Append(envLog, [step |-> c, env |-> st.Env])
        /\ k' = k + 1
    /\ UNCHANGED <<plan, runPc, runErr, nextId, origLen, injectedBy, envKind>>
    /\ RunFrame

\* build.go:126-129: parseOnbuildCommands fails.
StepInjectParseFails ==
    /\ InLoop
    /\ LET c == plan[k + 1] IN
        /\ calls' = calls \o RunCalls(c)
        /\ \E st \in ExecResults :
            /\ Len(st.InjectCommands) > 0
            /\ state' = st
            /\ envLog' = Append(envLog, [step |-> c, env |-> st.Env])
        /\ runErr' = StepErr("parseOnbuildCommands", c)
        /\ runPc' = "returned"
    /\ UNCHANGED <<plan, k, nextId, origLen, injectedBy, envKind>>
    /\ RunFrame

\* build.go:130-133: NewPlan fails.
StepInjectPlanFails ==
    /\ InLoop
    /\ LET c == plan[k + 1] IN
        /\ calls' = calls \o RunCalls(c)
        /\ \E st \in ExecResults :
            /\ Len(st.InjectCommands) > 0
            /\ state' = st
            /\ envLog' = Append(envLog, [step |-> c, env |-> st.Env])
        /\ runErr' = StepErr("NewPlan", c)
        /\ runPc' = "returned"
    /\ UNCHANGED <<plan, k, nextId, origLen, injectedBy, envKind>>
    /\ RunFrame

\* build.go:125-138: the sub-plan is spliced in and the queue cleared.
StepInjected ==
    /\ InLoop
    /\ LET c == plan[k + 1] IN
        /\ calls' = calls \o RunCalls(c)
        /\ \E st \in ExecResults :
            /\ Len(st.InjectCommands) > 0
            /\ plan' = Splice(plan, k, SubPlanOf(st.InjectCommands))
            /\ state' = [st EXCEPT !.InjectCommands = <<>>]
            /\ envLog' = Append(envLog, [step |-> c, env |-> st.Env])
            /\ nextId' = nextId + Len(st.InjectCommands)
            /\ injectedBy' = Append(injectedBy, [by |-> c, sub |-> SubPlanOf(st.InjectCommands)])
        /\ k' = k + 1
    /\ UNCHANGED <<runPc, runErr, origLen, envKind>>
    /\ RunFrame

\* build.go:95,141: the loop condition fails; return nil.
RunReturn ==
    /\ runPc = "running"
    /\ k >= Len(plan)
    /\ runPc' = "returned"
    /\ runErr' = NoErr
    /\ UNCHANGED <<plan, k, state, calls, nextId, origLen, injectedBy, envKind, envLog>>
    /\ RunFrame

NextRun ==
    \/ StepShouldRunFails
    \/ StepSkipped
    \/ StepExecuteFails
    \/ StepExecuted
    \/ StepInjectParseFails
    \/ StepInjectPlanFails
    \/ StepInjected
    \/ RunReturn

\* ------------------------------------------------------- Build.probeCache
\* The image ids of this world; the engine holds a subset of them.
Images == {"img1", "img2"}

Configs == {"cfgA", "cfgB"}

\* State.Commits: the pending commit intents.
CommitVals == {<<>>, <<"RUN make">>}

\* The NoCache sub-record a State carried when an earlier run cached it.
StaleNoCache == [ContainerID |-> "ctr_old", HostConfig |-> "hc_old", CacheBusted |-> TRUE]

\* The NoCache sub-record of the running build before any probe.
LiveNoCache(busted) == [ContainerID |-> "ctr_now", HostConfig |-> "hc_now", CacheBusted |-> busted]

\* The cache key of a State: the State without its NoCache sub-record.
Fingerprint(s) == [ImageID |-> s.ImageID, Config |-> s.Config, Commits |-> s.Commits]

Keys == [ImageID : Images, Config : Configs, Commits : CommitVals]

\* The entry an earlier run stored under `key`: a snapshot of the State it
\* probed, with the image id the step then produced.
Snapshot(key, img) ==
    [ImageID |-> img, Config |-> key.Config, Commits |-> key.Commits, NoCache |-> StaleNoCache]

\* docker.Image.Size and docker.Image.VirtualSize of an image.
ImgSize(img) == IF img = "img1" THEN 3 ELSE 5

ImgVirtualSize(img) == IF img = "img1" THEN 30 ELSE 50

\* Cache.Get found an entry (s2 != nil).
CacheHas(s) == Fingerprint(s) \in DOMAIN store

\* Cache.Get(s): the entry stored under the fingerprint of s.
CacheGet(s) == store[Fingerprint(s)]

\* Cache.Del(st): the entry holding st is removed, unless the store fails.
CacheDel(st, ok) ==
    IF ok THEN [key \in {x \in DOMAIN store : store[x] # st} |-> store[key]] ELSE store

\* State.CleanCommits.
CleanCommits(s) == [s EXCEPT !.Commits = <<>>]

\* Only an unconfigured store short-circuits; a busted State is probed.
ShortCircuitsIgnoresBust(s) == ~cacheOn

\* build.go:155
ShortCircuits(s) == ~cacheOn \/ s.NoCache.CacheBusted

\* The State is returned without the bust mark.
BustedForgotten(s) == s

\* build.go:164, 171, 182: s.NoCache.CacheBusted = true
Busted(s) == [s EXCEPT !.NoCache.CacheBusted = TRUE]

\* The cached State is returned with the bust mark set.
HitStateBusts(s, s2) ==
    CleanCommits([s2 EXCEPT !.NoCache = [s.NoCache EXCEPT !.CacheBusted = TRUE]])

\* The cached State is returned with the NoCache it was stored with.
HitStateStaleNoCache(s, s2) == CleanCommits(s2)

\* build.go:200-205: s2.NoCache = s.NoCache; s2.CleanCommits(); return *s2
HitState(s, s2) == CleanCommits([s2 EXCEPT !.NoCache = s.NoCache])

\* One call probeCache made on the cache store or the engine.
Op(op, st) == [op |-> op, st |-> st]

\* probeCache returns. Recorded: what the call was given, what it returned,
\* the cache and engine calls it made (ops), the result of the deferred Del
\* ("none" when no Del was deferred), the store and the metrics before and
\* after.
Return(out, hit, err, ops, del, newStore, newProduced, newVirtual) ==
    /\ history' = Append(history,
            [in |-> cur, out |-> out, hit |-> hit, err |-> err, ops |-> ops, del |-> del,
             storeBefore |-> store, storeAfter |-> newStore,
             producedBefore |-> ProducedSize, producedAfter |-> newProduced,
             virtualBefore |-> VirtualSize, virtualAfter |-> newVirtual])
    /\ store' = newStore
    /\ ProducedSize' = newProduced
    /\ VirtualSize' = newVirtual
    /\ cur' = out
    /\ probePc' = "probed"
    /\ UNCHANGED <<cacheOn, reloadCache, images>>
    /\ ProbeFrame

Probing == probePc = "ready"

\* The last probeCache call.
Last == history[Len(history)]

InitProbe ==
    /\ cacheOn \in BOOLEAN
    /\ reloadCache \in BOOLEAN
    /\ \E D \in SUBSET Keys :
        /\ Cardinality(D) <= Cardinality(Images)
        /\ cacheOn \/ D = {}
        /\ \E produced \in [D -> Images] :
            /\ \A x, y \in D : produced[x] = produced[y] => x = y
            /\ store = [key \in D |-> Snapshot(key, produced[key])]
    /\ images \in SUBSET Images
    /\ \E img \in Images, cm \in CommitVals, b \in BOOLEAN :
        cur = [ImageID |-> img, Config |-> "cfgA", Commits |-> cm, NoCache |-> LiveNoCache(b)]
    /\ ProducedSize = 0
    /\ VirtualSize = 0
    /\ probePc = "ready"
    /\ history = <<>>

\* build.go:155-157
ProbeShortCircuit ==
    /\ Probing
    /\ ShortCircuits(cur)
    /\ Return(cur, FALSE, "nil", <<>>, "none", store, ProducedSize, VirtualSize)

\* build.go:160-162: Cache.Get fails.
ProbeGetFails ==
    /\ Probing
    /\ ~ShortCircuits(cur)
    /\ Return(cur, FALSE, "GetErr", <<Op("Get", cur)>>, "none",
              store, ProducedSize, VirtualSize)

\* build.go:163-167: no entry.
ProbeMiss ==
    /\ Probing
    /\ ~ShortCircuits(cur)
    /\ ~CacheHas(cur)
    /\ Return(Busted(cur), FALSE, "nil", <<Op("Get", cur)>>, "none",
              store, ProducedSize, VirtualSize)

\* build.go:169-174: reload mode; the deferred Del runs as the call returns
\* and its result is dropped.
ProbeReload ==
    /\ Probing
    /\ ~ShortCircuits(cur)
    /\ CacheHas(cur)
    /\ reloadCache
    /\ LET s2 == CacheGet(cur) IN
        \E ok \in BOOLEAN :
            Return(Busted(cur), FALSE, "nil", <<Op("Get", cur), Op("Del", s2)>>,
                   IF ok THEN "nil" ELSE "DelErr",
                   CacheDel(s2, ok), ProducedSize, VirtualSize)

\* build.go:176-179: InspectImage fails.
ProbeInspectFails ==
    /\ Probing
    /\ ~ShortCircuits(cur)
    /\ CacheHas(cur)
    /\ ~reloadCache
    /\ LET s2 == CacheGet(cur) IN
        Return(cur, TRUE, "InspectErr", <<Op("Get", cur), Op("InspectImage", s2)>>, "none",
               store, ProducedSize, VirtualSize)

\* The stale entry is left in the store: no Del is deferred.
ProbeStaleKeepsEntry ==
    /\ Probing
    /\ ~ShortCircuits(cur)
    /\ CacheHas(cur)
    /\ ~reloadCache
    /\ LET s2 == CacheGet(cur) IN
        /\ s2.ImageID \notin images
        /\ Return(Busted(cur), FALSE, "nil",
                  <<Op("Get", cur), Op("InspectImage", s2)>>, "none",
                  store, ProducedSize, VirtualSize)

\* build.go:180-185: the cached image is gone from the engine; the deferred
\* Del runs as the call returns and its result is dropped.
ProbeStale ==
    /\ Probing
    /\ ~ShortCircuits(cur)
    /\ CacheHas(cur)
    /\ ~reloadCache
    /\ LET s2 == CacheGet(cur) IN
        /\ s2.ImageID \notin images
        /\ \E ok \in BOOLEAN :
            Return(Busted(cur), FALSE, "nil",
                   <<Op("Get", cur), Op("InspectImage", s2), Op("Del", s2)>>,
                   IF ok THEN "nil" ELSE "DelErr",
                   CacheDel(s2, ok), ProducedSize, VirtualSize)

\* A hit sets ProducedSize to the image's size instead of adding to it.
ProbeHitOverwritesSize ==
    /\ Probing
    /\ ~ShortCircuits(cur)
    /\ CacheHas(cur)
    /\ ~reloadCache
    /\ LET s2 == CacheGet(cur) IN
        /\ s2.ImageID \in images
        /\ Return(HitState(cur, s2), TRUE, "nil",
                  <<Op("Get", cur), Op("InspectImage", s2)>>, "none",
                  store, ImgSize(s2.ImageID), ImgVirtualSize(s2.ImageID))

\* build.go:187-205: a genuine hit.
ProbeHit ==
    /\ Probing
    /\ ~ShortCircuits(cur)
    /\ CacheHas(cur)
    /\ ~reloadCache
    /\ LET s2 == CacheGet(cur) IN
        /\ s2.ImageID \in images
        /\ Return(HitState(cur, s2), TRUE, "nil",
                  <<Op("Get", cur), Op("InspectImage", s2)>>, "none",
                  store, ProducedSize + ImgSize(s2.ImageID), ImgVirtualSize(s2.ImageID))

\* The command that probed goes on and the next command prepares its own
\* State from the one returned: new configuration and commit intents, the
\* NoCache sub-record carried forward; a step that was rebuilt leaves a
\* new image id.
NextCommand ==
    /\ probePc = "probed"
    /\ Last.err = "nil"
    /\ Len(history) < MaxProbes
    /\ \E img \in (IF cur.NoCache.CacheBusted THEN Images ELSE {cur.ImageID}),
          cfg \in Configs, cm \in CommitVals :
        cur' = [cur EXCEPT !.ImageID = img, !.Config = cfg, !.Commits = cm]
    /\ probePc' = "ready"
    /\ UNCHANGED <<cacheOn, reloadCache, store, images, ProducedSize, VirtualSize, history>>
    /\ ProbeFrame

NextProbe ==
    \/ ProbeShortCircuit
    \/ ProbeGetFails
    \/ ProbeMiss
    \/ ProbeReload
    \/ ProbeInspectFails
    \/ ProbeStale
    \/ ProbeHit
    \/ NextCommand

\* ------------------------------------------- DockerClient.RunContainer
\* The capacity of finished, sigch, errch and attacherr (client.go:199-202).
ChanCap == 1

\* Nothing has happened yet:
\*   ready            the caller has received and acknowledged `success`
\*   earlyAttachFail  AttachToContainer failed before it sent on `success`
\*   interrupted      an interrupt has reached the process
\*   intrRunning      an interrupt arrived between the successful
\*                    StartContainer and the consumption of the wait result
\*   removeAttempts   the RemoveContainer calls made
\*   continued        Build.Run went on to its next step after the call
\*   stepAfterIntr    ... and did so after an interrupt had arrived
NothingSeen ==
    [ready |-> FALSE, earlyAttachFail |-> FALSE, interrupted |-> FALSE,
     intrRunning |-> FALSE, removeAttempts |-> 0, continued |-> FALSE,
     stepAfterIntr |-> FALSE]

\* client.go:281-313: StartContainer has succeeded and the caller has not
\* yet taken the wait result (nor returned).
ContainerLive == mainPc \in {"monitor", "notify", "spawnWait", "select"}

InitRc ==
    /\ attachStdin \in BOOLEAN
    /\ isTerminalIn \in BOOLEAN
    /\ mainPc = "entry"
    /\ attachPc = "unborn"
    /\ waitPc = "unborn"
    /\ waitVal = "nil"
    /\ selVal = "nil"
    /\ finished = 0
    /\ errch = <<>>
    /\ attacherr = <<>>
    /\ sigch = 0
    /\ notified = FALSE
    /\ container = "created"
    /\ raw = FALSE
    /\ rcRet = "none"
    /\ process = "running"
    /\ waitZero = FALSE
    /\ lateAttachErr = FALSE
    /\ seen = NothingSeen

Alive == process = "running"

\* RunContainer returns v; the deferred RestoreTerminal (client.go:253) runs.
RcReturns(v) ==
    /\ mainPc' = "returned"
    /\ rcRet' = v
    /\ raw' = FALSE

\* The rejection comes after the attach goroutine has been started.
RcRejectNonTtyLate ==
    /\ Alive /\ mainPc = "entry"
    /\ attachStdin /\ ~isTerminalIn
    /\ RcReturns("NonTtyErr")
    /\ attachPc' = "connecting"
    /\ UNCHANGED <<attachStdin, isTerminalIn, waitPc, waitVal, selVal, finished,
                   errch, attacherr, sigch, notified, container, process, waitZero,
                   lateAttachErr, seen>>
    /\ RcFrame

\* client.go:231-236: stdin is to be attached and is no terminal.
RcRejectNonTty ==
    /\ Alive /\ mainPc = "entry"
    /\ attachStdin /\ ~isTerminalIn
    /\ RcReturns("NonTtyErr")
    /\ UNCHANGED <<attachStdin, isTerminalIn, attachPc, waitPc, waitVal, selVal, finished,
                   errch, attacherr, sigch, notified, container, process, waitZero,
                   lateAttachErr,
                   seen>>
    /\ RcFrame

\* client.go:248-252: term.SetRawTerminal fails.
RcSetRawFails ==
    /\ Alive /\ mainPc = "entry"
    /\ attachStdin /\ isTerminalIn
    /\ RcReturns("SetRawErr")
    /\ UNCHANGED <<attachStdin, isTerminalIn, attachPc, waitPc, waitVal, selVal, finished,
                   errch, attacherr, sigch, notified, container, process, waitZero,
                   lateAttachErr,
                   seen>>
    /\ RcFrame

\* The caller goes on to StartContainer without the exchange on `success`.
RcSetUpNoHandshake ==
    /\ Alive /\ mainPc = "entry"
    /\ attachStdin => isTerminalIn
    /\ raw' = attachStdin
    /\ attachPc' = "connecting"
    /\ mainPc' = "start"
    /\ UNCHANGED <<attachStdin, isTerminalIn, waitPc, waitVal, selVal, finished, errch,
                   attacherr, sigch, notified, container, rcRet, process, waitZero,
                   lateAttachErr, seen>>
    /\ RcFrame

\* client.go:231-275: the terminal goes raw when stdin is attached, and the
\* attach goroutine is started.
RcSetUp ==
    /\ Alive /\ mainPc = "entry"
    /\ attachStdin => isTerminalIn
    /\ raw' = attachStdin
    /\ attachPc' = "connecting"
    /\ mainPc' = "waitSuccess"
    /\ UNCHANGED <<attachStdin, isTerminalIn, waitPc, waitVal, selVal, finished, errch,
                   attacherr, sigch, notified, container, rcRet, process, waitZero,
                   lateAttachErr,
                   seen>>
    /\ RcFrame

\* client.go:257: AttachToContainer fails before it has the connection.
AttachConnectFails ==
    /\ Alive /\ attachPc = "connecting"
    /\ attachPc' = "failed"
    /\ lateAttachErr' = waitZero
    /\ UNCHANGED <<attachStdin, isTerminalIn, mainPc, waitPc, waitVal, selVal, finished,
                   errch, attacherr, sigch, notified, container, raw, rcRet, process,
                   waitZero>>
    /\ seen' = [seen EXCEPT !.earlyAttachFail = TRUE]
    /\ RcFrame

\* client.go:257: AttachToContainer has hijacked the connection and is
\* about to send on attachOpts.Success.
AttachHijacks ==
    /\ Alive /\ attachPc = "connecting"
    /\ attachPc' = "hijacked"
    /\ UNCHANGED <<attachStdin, isTerminalIn, mainPc, waitPc, waitVal, selVal, finished,
                   errch, attacherr, sigch, notified, container, raw, rcRet, process,
                   waitZero, lateAttachErr,
                   seen>>
    /\ RcFrame

\* client.go:277, `<-success`: the unbuffered send of AttachToContainer
\* meets the receive of the caller.
SuccessSignalled ==
    /\ Alive /\ attachPc = "hijacked" /\ mainPc = "waitSuccess"
    /\ attachPc' = "awaitAck"
    /\ mainPc' = "ackSuccess"
    /\ UNCHANGED <<attachStdin, isTerminalIn, waitPc, waitVal, selVal, finished, errch,
                   attacherr, sigch, notified, container, raw, rcRet, process, waitZero,
                   lateAttachErr,
                   seen>>
    /\ RcFrame

\* client.go:277, `success <-`: the caller's send meets AttachToContainer's
\* receive; the streams are copied from now on.
SuccessAcknowledged ==
    /\ Alive /\ attachPc = "awaitAck" /\ mainPc = "ackSuccess"
    /\ attachPc' = "streaming"
    /\ mainPc' = "start"
    /\ UNCHANGED <<attachStdin, isTerminalIn, waitPc, waitVal, selVal, finished, errch,
                   attacherr, sigch, notified, container, raw, rcRet, process, waitZero,
                   lateAttachErr>>
    /\ seen' = [seen EXCEPT !.ready = TRUE]
    /\ RcFrame

\* client.go:257: AttachToContainer returns nil; the goroutine ends.
AttachEnds ==
    /\ Alive /\ attachPc = "streaming"
    /\ attachPc' = "done"
    /\ UNCHANGED <<attachStdin, isTerminalIn, mainPc, waitPc, waitVal, selVal, finished,
                   errch, attacherr, sigch, notified, container, raw, rcRet, process,
                   waitZero, lateAttachErr,
                   seen>>
    /\ RcFrame

\* client.go:257: AttachToContainer returns an error while streaming.
AttachFails ==
    /\ Alive /\ attachPc = "streaming"
    /\ attachPc' = "failed"
    /\ lateAttachErr' = waitZero
    /\ UNCHANGED <<attachStdin, isTerminalIn, mainPc, waitPc, waitVal, selVal, finished,
                   errch, attacherr, sigch, notified, container, raw, rcRet, process,
                   waitZero,
                   seen>>
    /\ RcFrame

\* client.go:258-270: the select of the attach goroutine finds a value in
\* `finished` and drops the error.
AttachErrorDropped ==
    /\ Alive /\ attachPc = "failed"
    /\ finished > 0
    /\ finished' = finished - 1
    /\ attachPc' = "done"
    /\ UNCHANGED <<attachStdin, isTerminalIn, mainPc, waitPc, waitVal, selVal, errch,
                   attacherr, sigch, notified, container, raw, rcRet, process, waitZero,
                   lateAttachErr,
                   seen>>
    /\ RcFrame

\* client.go:271-272: `finished` is empty; the error goes to attacherr.
AttachErrorSent ==
    /\ Alive /\ attachPc = "failed"
    /\ finished = 0
    /\ Len(attacherr) < ChanCap
    /\ attacherr' = Append(attacherr, "AttachErr")
    /\ attachPc' = "done"
    /\ UNCHANGED <<attachStdin, isTerminalIn, mainPc, waitPc, waitVal, selVal, finished,
                   errch, sigch, notified, container, raw, rcRet, process, waitZero,
                   lateAttachErr,
                   seen>>
    /\ RcFrame

\* client.go:281-283: StartContainer fails.
RcStartFails ==
    /\ Alive /\ mainPc = "start"
    /\ RcReturns("StartErr")
    /\ UNCHANGED <<attachStdin, isTerminalIn, attachPc, waitPc, waitVal, selVal, finished,
                   errch, attacherr, sigch, notified, container, process, waitZero,
                   lateAttachErr,
                   seen>>
    /\ RcFrame

\* client.go:281: StartContainer succeeds.
RcStarts ==
    /\ Alive /\ mainPc = "start"
    /\ container' = "running"
    /\ mainPc' = IF attachStdin THEN "monitor" ELSE "notify"
    /\ UNCHANGED <<attachStdin, isTerminalIn, attachPc, waitPc, waitVal, selVal, finished,
                   errch, attacherr, sigch, notified, raw, rcRet, process, waitZero,
                   lateAttachErr,
                   seen>>
    /\ RcFrame

\* client.go:285-288: monitorTtySize fails.
RcMonitorFails ==
    /\ Alive /\ mainPc = "monitor"
    /\ RcReturns("MonitorErr")
    /\ UNCHANGED <<attachStdin, isTerminalIn, attachPc, waitPc, waitVal, selVal, finished,
                   errch, attacherr, sigch, notified, container, process, waitZero,
                   lateAttachErr,
                   seen>>
    /\ RcFrame

\* client.go:285-289: monitorTtySize succeeds.
RcMonitors ==
    /\ Alive /\ mainPc = "monitor"
    /\ mainPc' = "notify"
    /\ UNCHANGED <<attachStdin, isTerminalIn, attachPc, waitPc, waitVal, selVal, finished,
                   errch, attacherr, sigch, notified, container, raw, rcRet, process,
                   waitZero, lateAttachErr,
                   seen>>
    /\ RcFrame

\* client.go:293: signal.Notify(sigch, os.Interrupt)
RcNotifies ==
    /\ Alive /\ mainPc = "notify"
    /\ notified' = TRUE
    /\ mainPc' = "spawnWait"
    /\ UNCHANGED <<attachStdin, isTerminalIn, attachPc, waitPc, waitVal, selVal, finished,
                   errch, attacherr, sigch, container, raw, rcRet, process, waitZero,
                   lateAttachErr,
                   seen>>
    /\ RcFrame

\* client.go:295-305: the wait goroutine is started.
RcSpawnsWait ==
    /\ Alive /\ mainPc = "spawnWait"
    /\ waitPc' = "waiting"
    /\ mainPc' = "select"
    /\ UNCHANGED <<attachStdin, isTerminalIn, attachPc, waitVal, selVal, finished, errch,
                   attacherr, sigch, notified, container, raw, rcRet, process, waitZero,
                   lateAttachErr,
                   seen>>
    /\ RcFrame

\* The container's process ends with some status code.
ContainerExits ==
    /\ Alive /\ container = "running"
    /\ \E failed \in BOOLEAN :
        container' = IF failed THEN "exitedNonZero" ELSE "exitedZero"
    /\ UNCHANGED <<attachStdin, isTerminalIn, mainPc, attachPc, waitPc, waitVal, selVal,
                   finished, errch, attacherr, sigch, notified, raw, rcRet, process,
                   waitZero, lateAttachErr,
                   seen>>
    /\ RcFrame

\* client.go:296: WaitContainer returns the status code of the container.
WaitReturns ==
    /\ Alive /\ waitPc = "waiting"
    /\ container \in {"exitedZero", "exitedNonZero"}
    /\ waitVal' = IF container = "exitedZero" THEN "nil" ELSE "ExitCodeErr"
    /\ waitZero' = (container = "exitedZero")
    /\ waitPc' = IF container = "exitedZero" THEN "sendNil" ELSE "sendErr"
    /\ UNCHANGED <<attachStdin, isTerminalIn, mainPc, attachPc, selVal, finished, errch,
                   attacherr, sigch, notified, container, raw, rcRet, process,
                   lateAttachErr,
                   seen>>
    /\ RcFrame

\* client.go:296: WaitContainer returns an error.
WaitFails ==
    /\ Alive /\ waitPc = "waiting"
    /\ waitVal' = "WaitErr"
    /\ waitPc' = "sendErr"
    /\ UNCHANGED <<attachStdin, isTerminalIn, mainPc, attachPc, selVal, finished, errch,
                   attacherr, sigch, notified, container, raw, rcRet, process, waitZero,
                   lateAttachErr,
                   seen>>
    /\ RcFrame

\* The wait goroutine goes on to `errch <- nil` without sending the error.
WaitSkipsErr ==
    /\ Alive /\ waitPc = "sendErr"
    /\ waitPc' = "sendNil"
    /\ UNCHANGED <<attachStdin, isTerminalIn, mainPc, attachPc, waitVal, selVal, finished,
                   errch, attacherr, sigch, notified, container, raw, rcRet, process,
                   waitZero, lateAttachErr, seen>>
    /\ RcFrame

\* client.go:298-302: errch <- err
WaitSendsErr ==
    /\ Alive /\ waitPc = "sendErr"
    /\ Len(errch) < ChanCap
    /\ errch' = Append(errch, waitVal)
    /\ waitPc' = "sendNil"
    /\ UNCHANGED <<attachStdin, isTerminalIn, mainPc, attachPc, waitVal, selVal, finished,
                   attacherr, sigch, notified, container, raw, rcRet, process, waitZero,
                   lateAttachErr,
                   seen>>
    /\ RcFrame

\* client.go:303: errch <- nil
WaitSendsNil ==
    /\ Alive /\ waitPc = "sendNil"
    /\ Len(errch) < ChanCap
    /\ errch' = Append(errch, "nil")
    /\ waitPc' = "done"
    /\ UNCHANGED <<attachStdin, isTerminalIn, mainPc, attachPc, waitVal, selVal, finished,
                   attacherr, sigch, notified, container, raw, rcRet, process, waitZero,
                   lateAttachErr,
                   seen>>
    /\ RcFrame

\* client.go:308: the select takes a value from errch.
SelectErrch ==
    /\ Alive /\ mainPc = "select"
    /\ errch # <<>>
    /\ selVal' = Head(errch)
    /\ errch' = Tail(errch)
    /\ mainPc' = "markFinished"
    /\ UNCHANGED <<attachStdin, isTerminalIn, attachPc, waitPc, waitVal, finished,
                   attacherr, sigch, notified, container, raw, rcRet, process, waitZero,
                   lateAttachErr,
                   seen>>
    /\ RcFrame

\* client.go:310-313, 328: finished <- struct{}{}, then the value taken
\* from errch is returned.
MarkFinished ==
    /\ Alive /\ mainPc = "markFinished"
    /\ finished < ChanCap
    /\ finished' = finished + 1
    /\ RcReturns(selVal)
    /\ UNCHANGED <<attachStdin, isTerminalIn, attachPc, waitPc, waitVal, selVal, errch,
                   attacherr, sigch, notified, container, process, waitZero,
                   lateAttachErr,
                   seen>>
    /\ RcFrame

\* client.go:314-317: the select takes the attach error and returns it.
SelectAttachErr ==
    /\ Alive /\ mainPc = "select"
    /\ attacherr # <<>>
    /\ attacherr' = Tail(attacherr)
    /\ RcReturns(Head(attacherr))
    /\ UNCHANGED <<attachStdin, isTerminalIn, attachPc, waitPc, waitVal, selVal, finished,
                   errch, sigch, notified, container, process, waitZero, lateAttachErr,
                   seen>>
    /\ RcFrame

\* client.go:318-325: the select takes the interrupt; the container is
\* removed if RemoveContainer succeeds, and os.Exit(2) ends the process
\* (no deferred call runs).
SelectInterrupt ==
    /\ Alive /\ mainPc = "select"
    /\ sigch > 0
    /\ sigch' = sigch - 1
    /\ \E removed \in BOOLEAN :
        container' = IF removed THEN "removed" ELSE container
    /\ process' = "exit2"
    /\ mainPc' = "exited"
    /\ UNCHANGED <<attachStdin, isTerminalIn, attachPc, waitPc, waitVal, selVal, finished,
                   errch, attacherr, notified, raw, rcRet, waitZero, lateAttachErr>>
    /\ seen' = [seen EXCEPT !.removeAttempts = @ + 1]
    /\ RcFrame

\* An interrupt reaches the process after signal.Notify: it is queued on
\* sigch (and dropped when sigch is full).
Interrupt ==
    /\ Alive /\ notified
    /\ sigch < ChanCap
    /\ sigch' = sigch + 1
    /\ UNCHANGED <<attachStdin, isTerminalIn, mainPc, attachPc, waitPc, waitVal, selVal,
                   finished, errch, attacherr, notified, container, raw, rcRet, process,
                   waitZero, lateAttachErr>>
    /\ seen' = [seen EXCEPT !.interrupted = TRUE, !.intrRunning = @ \/ ContainerLive]
    /\ RcFrame

\* An interrupt reaches the process before signal.Notify: Go's default
\* action ends the process.
InterruptUnhandled ==
    /\ Alive /\ ~notified
    /\ process' = "killed"
    /\ UNCHANGED <<attachStdin, isTerminalIn, mainPc, attachPc, waitPc, waitVal, selVal,
                   finished, errch, attacherr, sigch, notified, container, raw, rcRet,
                   waitZero, lateAttachErr>>
    /\ seen' = [seen EXCEPT !.interrupted = TRUE, !.intrRunning = @ \/ ContainerLive]
    /\ RcFrame

\* build.go:95-117: RunContainer returned nil to the command that called
\* it, its Execute returns, and Build.Run goes on to the next step.
BuildContinues ==
    /\ Alive /\ mainPc = "returned"
    /\ rcRet = "nil"
    /\ ~seen.continued
    /\ seen' = [seen EXCEPT !.continued = TRUE, !.stepAfterIntr = seen.interrupted]
    /\ UNCHANGED <<attachStdin, isTerminalIn, mainPc, attachPc, waitPc, waitVal, selVal,
                   finished, errch, attacherr, sigch, notified, container, raw, rcRet,
                   process, waitZero, lateAttachErr>>
    /\ RcFrame

NextRc ==
    \/ RcRejectNonTty
    \/ RcSetRawFails
    \/ RcSetUp
    \/ AttachConnectFails
    \/ AttachHijacks
    \/ SuccessSignalled
    \/ SuccessAcknowledged
    \/ AttachEnds
    \/ AttachFails
    \/ AttachErrorDropped
    \/ AttachErrorSent
    \/ RcStartFails
    \/ RcStarts
    \/ RcMonitorFails
    \/ RcMonitors
    \/ RcNotifies
    \/ RcSpawnsWait
    \/ ContainerExits
    \/ WaitReturns
    \/ WaitFails
    \/ WaitSendsErr
    \/ WaitSendsNil
    \/ SelectErrch
    \/ MarkFinished
    \/ SelectAttachErr
    \/ SelectInterrupt
    \/ Interrupt
    \/ InterruptUnhandled
    \/ BuildContinues

\* ------------------------------------------ DockerClient.EnsureContainer
\* Most containers removed from the engine behind the callers' backs.
MaxRemovals == 1

\* The callers of EnsureContainer: each makes one call, one after the other
\* or both at once.
Callers == {1, 2}

\* b.exportsContainerName() and b.mountsContainerName(path).
Names == {"exports", "mounts"}

NoContainer == 0

\* build.go:213, 234: config.Image of the container of that name.
ImageOf(name) == IF name = "exports" THEN "RsyncImage" ELSE "MountVolumeImage"

\* The id of a container of that name left by an earlier run.
EarlierId(name) == IF name = "exports" THEN 1 ELSE 2

\* A caller that has not called yet.
NotCalled ==
    [pc |-> "idle", name |-> "exports", ret |-> NoContainer, err |-> "nil",
     creates |-> 0, pulls |-> 0, after |-> {}, removalsAtCall |-> 0, out |-> "none"]

InitEnsure ==
    /\ \E present \in SUBSET Names :
        engine = [n \in Names |-> IF n \in present THEN EarlierId(n) ELSE NoContainer]
    /\ engineImages \in SUBSET {ImageOf(n) : n \in Names}
    /\ nextCid = 3
    /\ ec = [p \in Callers |-> NotCalled]
    /\ removals = 0
    /\ exports = <<>>

\* What an action of caller p leaves alone when it only moves p.
OnlyCall(p, r) ==
    /\ ec' = [ec EXCEPT ![p] = r]
    /\ UNCHANGED <<engine, engineImages, nextCid, removals, exports>>
    /\ EnsureFrame

\* EnsureContainer returns (id, err) to the provisioner.
EcReturns(p, id, err) ==
    OnlyCall(p, [ec[p] EXCEPT !.pc = "returned", !.ret = id, !.err = err])

\* build.go:208-221, 230-243: a provisioner calls EnsureContainer with the
\* name it computed. `after`: the callers whose call had returned by then.
EcCall(p) ==
    /\ ec[p].pc = "idle"
    /\ \A q \in Callers : q < p => ec[q].pc # "idle"
    /\ \E n \in Names :
        OnlyCall(p, [ec[p] EXCEPT !.pc = "inspect", !.name = n,
                                  !.after = {q \in Callers : ec[q].pc \in {"returned", "done"}},
                                  !.removalsAtCall = removals])

\* client.go:484-488: InspectContainer fails otherwise than NoSuchContainer.
EcInspectFails(p) ==
    /\ ec[p].pc = "inspect"
    /\ EcReturns(p, NoContainer, "InspectErr")

\* The container found is ignored and the call goes on to create one.
EcInspectFoundRecreates(p) ==
    /\ ec[p].pc = "inspect"
    /\ engine[ec[p].name] # NoContainer
    /\ OnlyCall(p, [ec[p] EXCEPT !.pc = "ensureImage"])

\* client.go:489-491: the container exists; its id is returned.
EcInspectFound(p) ==
    /\ ec[p].pc = "inspect"
    /\ engine[ec[p].name] # NoContainer
    /\ EcReturns(p, engine[ec[p].name], "nil")

\* client.go:484-495: NoSuchContainer; go on to EnsureImage.
EcInspectMissing(p) ==
    /\ ec[p].pc = "inspect"
    /\ engine[ec[p].name] = NoContainer
    /\ OnlyCall(p, [ec[p] EXCEPT !.pc = "ensureImage"])

\* client.go:469-471, 495-497: InspectImage fails otherwise than
\* ErrNoSuchImage.
EiInspectFails(p) ==
    /\ ec[p].pc = "ensureImage"
    /\ EcReturns(p, NoContainer, "EnsureImageErr")

\* client.go:472-474: the image is there.
EiFound(p) ==
    /\ ec[p].pc = "ensureImage"
    /\ ImageOf(ec[p].name) \in engineImages
    /\ OnlyCall(p, [ec[p] EXCEPT !.pc = "create"])

\* client.go:476, 95-125: the image is missing; PullImage starts the
\* display goroutine and calls the engine's pull.
EiPulls(p) ==
    /\ ec[p].pc = "ensureImage"
    /\ ImageOf(ec[p].name) \notin engineImages
    /\ OnlyCall(p, [ec[p] EXCEPT !.pc = "pull", !.pulls = @ + 1])

\* client.go:125-127: the engine's pull fails.
PullFails(p) ==
    /\ ec[p].pc = "pull"
    /\ EcReturns(p, NoContainer, "EnsureImageErr")

\* client.go:125-128: the engine's pull completes; PullImage receives from
\* errch. The write end of the pipe is not closed.
PullCompletes(p) ==
    /\ ec[p].pc = "pull"
    /\ engineImages' = engineImages \cup {ImageOf(ec[p].name)}
    /\ ec' = [ec EXCEPT ![p].pc = "display"]
    /\ UNCHANGED <<engine, nextCid, removals, exports>>
    /\ EnsureFrame

\* client.go:120-122, 128: DisplayJSONMessagesStream returns an error it
\* found in the stream; it is the result of PullImage. (With no error in
\* the stream it keeps reading the pipe, which never reaches its end.)
DisplayFails(p) ==
    /\ ec[p].pc = "display"
    /\ EcReturns(p, NoContainer, "EnsureImageErr")

\* client.go:508-511: CreateContainer is issued and the engine refuses it
\* because the name has been taken since the call inspected it.
EcCreateConflict(p) ==
    /\ ec[p].pc = "create"
    /\ engine[ec[p].name] # NoContainer
    /\ OnlyCall(p, [ec[p] EXCEPT !.pc = "returned", !.ret = NoContainer,
                                  !.err = "CreateConflict", !.creates = @ + 1])

\* client.go:508-511: CreateContainer is issued and fails for any other
\* reason.
EcCreateFails(p) ==
    /\ ec[p].pc = "create"
    /\ OnlyCall(p, [ec[p] EXCEPT !.pc = "returned", !.ret = NoContainer,
                                  !.err = "CreateErr", !.creates = @ + 1])

\* client.go:508-513: CreateContainer is issued and succeeds.
EcCreates(p) ==
    /\ ec[p].pc = "create"
    /\ engine[ec[p].name] = NoContainer
    /\ engine' = [engine EXCEPT ![ec[p].name] = nextCid]
    /\ nextCid' = nextCid + 1
    /\ ec' = [ec EXCEPT ![p] = [@ EXCEPT !.pc = "returned", !.ret = nextCid,
                                          !.err = "nil", !.creates = @ + 1]]
    /\ UNCHANGED <<engineImages, removals, exports>>
    /\ EnsureFrame

\* build.go:221-227: getVolumeContainer returns the name of the container;
\* build.go:243-250: getExportsContainer returns its id, "" on failure.
\* Neither touches b.exports.
ProvisionerReturns(p) ==
    /\ ec[p].pc = "returned"
    /\ OnlyCall(p, [ec[p] EXCEPT !.pc = "done",
                                  !.out = IF ec[p].name = "mounts" THEN "name"
                                          ELSE IF ec[p].err = "nil" THEN "id" ELSE "empty"])

\* Somebody removes a container from the engine.
ContainerRemoved ==
    /\ removals < MaxRemovals
    /\ \E n \in Names :
        /\ engine[n] # NoContainer
        /\ engine' = [engine EXCEPT ![n] = NoContainer]
    /\ removals' = removals + 1
    /\ UNCHANGED <<engineImages, nextCid, ec, exports>>
    /\ EnsureFrame

NextEnsure ==
    \/ \E p \in Callers : EcCall(p)
    \/ \E p \in Callers : EcInspectFails(p)
    \/ \E p \in Callers : EcInspectFound(p)
    \/ \E p \in Callers : EcInspectMissing(p)
    \/ \E p \in Callers : EiInspectFails(p)
    \/ \E p \in Callers : EiFound(p)
    \/ \E p \in Callers : EiPulls(p)
    \/ \E p \in Callers : PullFails(p)
    \/ \E p \in Callers : PullCompletes(p)
    \/ \E p \in Callers : DisplayFails(p)
    \/ \E p \in Callers : EcCreateConflict(p)
    \/ \E p \in Callers : EcCreateFails(p)
    \/ \E p \in Callers : EcCreates(p)
    \/ \E p \in Callers : ProvisionerReturns(p)
    \/ ContainerRemoved

\* ------------------------------------------------------------ the parts
\* A part that is not running: its variables at one fixed initial value.
IdleRun ==
    /\ plan = <<>> /\ origLen = 0 /\ nextId = 1 /\ k = 0
    /\ state = [Env |-> 0, InjectCommands |-> <<>>]
    /\ runPc = "returned" /\ runErr = NoErr /\ calls = <<>>
    /\ injectedBy = <<>> /\ envKind = "odd" /\ envLog = <<>>

IdleProbe ==
    /\ cacheOn = FALSE /\ reloadCache = FALSE /\ store = <<>> /\ images = {}
    /\ cur = [ImageID |-> "img1", Config |-> "cfgA", Commits |-> <<>>, NoCache |-> LiveNoCache(FALSE)]
    /\ ProducedSize = 0 /\ VirtualSize = 0
    /\ probePc = "probed" /\ history = <<>>

IdleRc ==
    /\ attachStdin = FALSE /\ isTerminalIn = FALSE
    /\ mainPc = "returned" /\ attachPc = "unborn" /\ waitPc = "unborn"
    /\ waitVal = "nil" /\ selVal = "nil"
    /\ finished = 0 /\ errch = <<>> /\ attacherr = <<>> /\ sigch = 0
    /\ notified = FALSE /\ container = "created" /\ raw = FALSE
    /\ rcRet = "none" /\ process = "running"
    /\ waitZero = FALSE /\ lateAttachErr = FALSE
    /\ seen = NothingSeen

IdleEnsure ==
    /\ engine = [n \in Names |-> NoContainer] /\ engineImages = {}
    /\ nextCid = 3 /\ ec = [p \in Callers |-> NotCalled]
    /\ removals = 0 /\ exports = <<>>

InitOfRun == InitRun /\ IdleProbe /\ IdleRc /\ IdleEnsure

InitOfProbe == InitProbe /\ IdleRun /\ IdleRc /\ IdleEnsure

InitOfRc == InitRc /\ IdleRun /\ IdleProbe /\ IdleEnsure

InitOfEnsure == InitEnsure /\ IdleRun /\ IdleProbe /\ IdleRc

SpecRun == InitOfRun /\ [][NextRun]_vars

\* Build.Run with every method it calls returning: the loop goes on as
\* long as it can.
SpecRunFair == InitOfRun /\ [][NextRun]_vars /\ WF_vars(NextRun)

SpecProbe == InitOfProbe /\ [][NextProbe]_vars

SpecRC == InitOfRc /\ [][NextRc]_vars

SpecEnsure == InitOfEnsure /\ [][NextEnsure]_vars

\* The steps a call takes by itself once it can. DisplayFails is not among
\* them: whether the stream carries an error is up to the engine.
CallStep(p) ==
    \/ EcInspectFails(p) \/ EcInspectFound(p) \/ EcInspectMissing(p)
    \/ EiInspectFails(p) \/ EiFound(p) \/ EiPulls(p)
    \/ PullFails(p) \/ PullCompletes(p)
    \/ EcCreateConflict(p) \/ EcCreateFails(p) \/ EcCreates(p)
    \/ ProvisionerReturns(p)

\* EnsureContainer with every engine call returning and every goroutine
\* that can take a step taking one.
SpecEnsureFair ==
    /\ InitOfEnsure /\ [][NextEnsure]_vars
    /\ \A p \in Callers : WF_vars(CallStep(p))

\* The steps of the three goroutines of RunContainer. The engine's and the
\* user's steps (ContainerExits, Interrupt, InterruptUnhandled) and the
\* caller's next step (BuildContinues) are not among them.
MainStep ==
    \/ RcRejectNonTty \/ RcSetRawFails \/ RcSetUp
    \/ SuccessSignalled \/ SuccessAcknowledged
    \/ RcStartFails \/ RcStarts \/ RcMonitorFails \/ RcMonitors
    \/ RcNotifies \/ RcSpawnsWait
    \/ SelectErrch \/ MarkFinished \/ SelectAttachErr \/ SelectInterrupt

AttachStep ==
    \/ AttachConnectFails \/ AttachHijacks
    \/ AttachEnds \/ AttachFails \/ AttachErrorDropped \/ AttachErrorSent

WaitStep ==
    \/ WaitReturns \/ WaitFails \/ WaitSendsErr \/ WaitSendsNil

\* RunContainer under the Go scheduler: a goroutine that can take a step
\* eventually takes one.
SpecRCFair ==
    /\ InitOfRc /\ [][NextRc]_vars
    /\ WF_vars(MainStep) /\ WF_vars(AttachStep) /\ WF_vars(WaitStep)

\* ------------------------------------------- properties of Build.probeCache
\* The recorded calls.
CallIds == 1..Len(history)

\* The call neither short-circuited nor failed to read the store, and the
\* store held an entry for the State it was given.
FoundEntry(c) ==
    /\ cacheOn
    /\ ~c.in.NoCache.CacheBusted
    /\ c.err # "GetErr"
    /\ Fingerprint(c.in) \in DOMAIN c.storeBefore

EntryOf(c) == c.storeBefore[Fingerprint(c.in)]

MetricsKept(c) ==
    /\ c.producedAfter = c.producedBefore
    /\ c.virtualAfter = c.virtualBefore

\* C3: a probe with no store configured, or of a State already busted,
\* returns its input unchanged with hit=false and no error, makes no Get,
\* Del or InspectImage call and leaves the store and the metrics alone.
C3_ShortCircuit ==
    \A i \in CallIds :
        LET c == history[i] IN
        (~cacheOn \/ c.in.NoCache.CacheBusted) =>
            /\ c.out = c.in
            /\ ~c.hit
            /\ c.err = "nil"
            /\ c.ops = <<>>
            /\ c.storeAfter = c.storeBefore
            /\ MetricsKept(c)

\* C3 witness: a busted State was probed while the store held an entry for
\* it whose image the engine has (a hit, had the store been consulted).
C3_Witness ==
    /\ history # <<>>
    /\ cacheOn /\ ~reloadCache
    /\ Last.in.NoCache.CacheBusted
    /\ Fingerprint(Last.in) \in DOMAIN Last.storeBefore
    /\ Last.storeBefore[Fingerprint(Last.in)].ImageID \in images

\* C4: in reload mode a probe that finds an entry issues Del for it,
\* returns hit=false with CacheBusted=true, does not ask the engine, and
\* the entry is gone from the store once the call has returned.
C4_ReloadDeletesEntry ==
    \A i \in CallIds :
        LET c == history[i] IN
        (reloadCache /\ FoundEntry(c)) =>
            /\ c.ops = <<Op("Get", c.in), Op("Del", EntryOf(c))>>
            /\ ~c.hit
            /\ c.out.NoCache.CacheBusted
            /\ Fingerprint(c.in) \notin DOMAIN c.storeAfter

\* C5: whenever probeCache returns hit=true the returned State has no
\* pending commit.
C5_HitHasNoPendingCommit ==
    \A i \in CallIds : history[i].hit => history[i].out.Commits = <<>>

\* C6: on a genuine hit the returned State is the cached entry's State,
\* cached ImageID included, with the NoCache sub-record of the input.
C6_HitCarriesInputNoCache ==
    \A i \in CallIds :
        LET c == history[i] IN
        (c.hit /\ c.err = "nil") =>
            /\ FoundEntry(c)
            /\ c.out.ImageID = EntryOf(c).ImageID
            /\ c.out.Config = EntryOf(c).Config
            /\ c.out.NoCache = c.in.NoCache
            /\ c.out.NoCache.ContainerID = c.in.NoCache.ContainerID
            /\ c.out.NoCache.HostConfig = c.in.NoCache.HostConfig
            /\ c.out.NoCache.CacheBusted = c.in.NoCache.CacheBusted

\* C6 witness: a genuine hit on an entry stored with another NoCache
\* sub-record and another image id than the input's.
C6_Witness ==
    /\ history # <<>>
    /\ Last.hit /\ Last.err = "nil"
    /\ EntryOf(Last).NoCache # Last.in.NoCache
    /\ EntryOf(Last).ImageID # Last.in.ImageID
    /\ Last.out.ImageID = EntryOf(Last).ImageID

\* The call found an entry whose image the engine reports as not found.
FoundStale(c) ==
    /\ FoundEntry(c)
    /\ ~reloadCache
    /\ c.err = "nil"
    /\ EntryOf(c).ImageID \notin images

Missed(c) ==
    /\ cacheOn
    /\ ~c.in.NoCache.CacheBusted
    /\ c.err # "GetErr"
    /\ Fingerprint(c.in) \notin DOMAIN c.storeBefore

\* C8: a miss returns the input with only CacheBusted set, hit=false and
\* no error, after a Get and nothing else; and every later probe of a
\* State that carries the returned NoCache sub-record returns hit=false
\* without touching the store.
C8_MissBustsLineage ==
    \A i \in CallIds :
        LET c == history[i] IN
        Missed(c) =>
            /\ c.out = [c.in EXCEPT !.NoCache.CacheBusted = TRUE]
            /\ c.out.NoCache.CacheBusted
            /\ ~c.hit
            /\ c.err = "nil"
            /\ c.ops = <<Op("Get", c.in)>>
            /\ c.storeAfter = c.storeBefore
            /\ \A j \in CallIds :
                    (j > i /\ history[j].in.NoCache = c.out.NoCache) =>
                        ~history[j].hit /\ history[j].ops = <<>>

\* C8 witness: after a miss, a State carrying its NoCache sub-record was
\* probed while the store held an entry for it with its image present.
C8_Witness ==
    /\ Len(history) >= 2
    /\ Missed(history[1])
    /\ ~reloadCache
    /\ Last.in.NoCache = history[1].out.NoCache
    /\ Fingerprint(Last.in) \in DOMAIN Last.storeBefore
    /\ Last.storeBefore[Fingerprint(Last.in)].ImageID \in images

\* C9: a failure of the cache store, reading an entry or deleting one,
\* makes probeCache return an error.
C9_CacheErrorsAreFatal ==
    \A i \in CallIds :
        LET c == history[i] IN
        (c.err = "GetErr" \/ c.del = "DelErr") => c.err # "nil"

\* The call returned a hit and no error.
GenuineHit(c) == c.hit /\ c.err = "nil"

\* C22: a genuine hit returns the cached image id with CacheBusted still
\* false; the probe of the next step, whose State is built on that image
\* id, consults the store and (when it returns no error) hits exactly when
\* the store holds an entry for it whose image the engine has; when the
\* store holds none it misses, and the store and the metrics of the first
\* hit are left as they were.
C22_HitKeepsLineage ==
    \A i \in CallIds :
        LET c == history[i] IN
        GenuineHit(c) =>
            /\ ~c.out.NoCache.CacheBusted
            /\ c.out.ImageID = EntryOf(c).ImageID
            /\ \A j \in CallIds :
                j = i + 1 =>
                    LET d == history[j] IN
                    /\ d.in.ImageID = c.out.ImageID
                    /\ d.ops # <<>> /\ d.ops[1] = Op("Get", d.in)
                    /\ d.err = "nil" =>
                            (d.hit <=> (FoundEntry(d) /\ EntryOf(d).ImageID \in images))
                    /\ (d.err = "nil" /\ ~FoundEntry(d)) =>
                            /\ ~d.hit
                            /\ d.out.NoCache.CacheBusted
                            /\ d.storeAfter = d.storeBefore
                            /\ Fingerprint(c.in) \in DOMAIN d.storeAfter
                            /\ MetricsKept(d)

\* C22 witness: step 1 hit, and step 2, built on the reused image id (not
\* the one step 1 started from), hit as well.
C22_Witness ==
    /\ Len(history) = 2
    /\ GenuineHit(history[1]) /\ GenuineHit(history[2])
    /\ history[2].in.ImageID # history[1].in.ImageID
    /\ history[2].in.Config # history[1].in.Config

\* The sizes of the images of the genuine hits among the first n calls.
RECURSIVE SumOfHits(_)
SumOfHits(n) ==
    IF n = 0 THEN 0
    ELSE SumOfHits(n - 1)
            + (IF GenuineHit(history[n]) THEN ImgSize(history[n].out.ImageID) ELSE 0)

\* C24: a genuine hit adds the found image's Size to ProducedSize and sets
\* VirtualSize to its VirtualSize; every other outcome leaves both alone;
\* ProducedSize is the sum of the sizes of the images of the genuine hits.
C24_MetricsOnlyOnHit ==
    /\ \A i \in CallIds :
        LET c == history[i] IN
        IF GenuineHit(c)
        THEN /\ c.producedAfter = c.producedBefore + ImgSize(EntryOf(c).ImageID)
             /\ c.virtualAfter = ImgVirtualSize(EntryOf(c).ImageID)
        ELSE MetricsKept(c)
    /\ ProducedSize = SumOfHits(Len(history))

\* C24 witness: two genuine hits on different images in one lineage.
C24_Witness ==
    /\ Len(history) = 2
    /\ GenuineHit(history[1]) /\ GenuineHit(history[2])
    /\ history[1].out.ImageID # history[2].out.ImageID
    /\ ProducedSize = ImgSize("img1") + ImgSize("img2")

\* C25: hit=true comes with a nil error, the cached entry's ImageID and an
\* image the engine has; a non-nil error comes with hit=false and the
\* input State unmodified.
C25_HitOnlyWhenGenuine ==
    \A i \in CallIds :
        LET c == history[i] IN
        /\ c.hit =>
            /\ c.err = "nil"
            /\ FoundEntry(c)
            /\ c.out.ImageID = EntryOf(c).ImageID
            /\ EntryOf(c).ImageID \in images
        /\ c.err # "nil" => (~c.hit /\ c.out = c.in)

\* --------------------------------------------- properties of RunContainer
\* C10: when WaitContainer had returned status 0 before AttachToContainer
\* returned its error, RunContainer, if it returns, returns nil.
C10_LateAttachErrorSuppressed ==
    (mainPc = "returned" /\ waitZero /\ lateAttachErr) => rcRet = "nil"

\* C11: an interrupt that arrives while the container RunContainer started
\* is live (after the successful StartContainer, before the wait result is
\* taken) ends the call by exactly one RemoveContainer attempt followed by
\* os.Exit(2); the call does not end in any other way.
C11_InterruptRemovesAndExits ==
    (seen.intrRunning /\ (~Alive \/ mainPc = "returned")) =>
        /\ process = "exit2"
        /\ seen.removeAttempts = 1

\* C12: however the call ends (a return or the interrupt path that ends
\* the process), the terminal is no longer in raw mode.
C12_TerminalRestored ==
    mainPc \in {"returned", "exited"} => ~raw

\* C13: StartContainer has been issued only if AttachToContainer has sent
\* on `success` and the caller has sent the acknowledgement back.
C13_ReadyBeforeStart ==
    (container # "created" \/ rcRet = "StartErr") =>
        /\ seen.ready
        /\ attachPc \in {"streaming", "failed", "done"}

\* C13 witness: the container was started after the handshake.
C13_Witness ==
    /\ container = "running"
    /\ seen.ready
    /\ mainPc = "select"

\* C14: once AttachToContainer has failed before sending on `success`,
\* RunContainer returns that attach error (unless the process is ended
\* first).
C14_EarlyAttachFailureReturned ==
    (seen.earlyAttachFail /\ Alive) ~>
        (~Alive \/ (mainPc = "returned" /\ rcRet = "AttachErr"))

\* C15: after RunContainer has returned, no goroutine it started is blocked
\* on a send to a full channel that nobody will receive from.
C15_NoSendStuck ==
    mainPc = "returned" =>
        /\ ~(waitPc \in {"sendErr", "sendNil"} /\ Len(errch) = ChanCap)
        /\ ~(attachPc = "failed" /\ finished = 0 /\ Len(attacherr) = ChanCap)

\* C16: when the value taken from errch ends RunContainer, the call
\* returns the error the wait goroutine derived from WaitContainer, and
\* returns nil exactly when WaitContainer gave status 0 without error.
C16_WaitOutcome ==
    (mainPc = "returned" /\ rcRet \in {"nil", "WaitErr", "ExitCodeErr"}) =>
        /\ rcRet = waitVal
        /\ rcRet = "nil" <=> waitZero

\* C16 witness: a non-zero status was returned as the error, and the wait
\* goroutine has sent its trailing nil as well.
C16_Witness ==
    /\ mainPc = "returned"
    /\ rcRet = "ExitCodeErr"
    /\ container = "exitedNonZero"
    /\ waitPc = "done"

\* C17: once an interrupt has reached the process, Build.Run executes no
\* further step.
C17_InterruptAbortsRun ==
    ~seen.stepAfterIntr

\* C28: a call with attachStdin whose stdin is no terminal, or whose
\* switch to raw mode fails, returns its error with no attach begun, the
\* container not started, no interrupt handler registered and the
\* terminal not in raw mode; with stdin no terminal nothing else happens.
C28_RejectedRunHasNoEffect ==
    /\ rcRet \in {"NonTtyErr", "SetRawErr"} =>
        /\ mainPc = "returned"
        /\ attachStdin
        /\ attachPc = "unborn" /\ waitPc = "unborn"
        /\ container = "created"
        /\ ~notified /\ sigch = 0
        /\ ~raw
        /\ ~seen.ready /\ seen.removeAttempts = 0
    /\ (attachStdin /\ ~isTerminalIn /\ mainPc # "entry") => rcRet = "NonTtyErr"

\* C28 witness: the call was rejected for a stdin that is no terminal.
C28_Witness ==
    /\ mainPc = "returned"
    /\ attachStdin /\ ~isTerminalIn
    /\ rcRet = "NonTtyErr"

\* ------------------------------------------------- properties of Build.Run
\* The commands on which `op` was invoked, in order of invocation.
Invoked(op) ==
    LET sel == SelectSeq(calls, LAMBDA c : c.op = op)
    IN  [i \in 1..Len(sel) |-> sel[i].step]

ShouldRunTrue(c) == \E i \in 1..Len(calls) : calls[i] = Call("ShouldRun", c, 1)

NoDuplicates(s) == \A i, j \in 1..Len(s) : s[i] = s[j] => i = j

\* C1: when exactly one step, original step kk, injected a sub-plan and
\* no step failed, Run visited original steps 1..kk, then the injected
\* steps, then original steps kk+1..N, in that order and once each, and
\* invoked Execute on exactly those of them whose ShouldRun was true, in
\* the same order.
C1_SpliceOrder ==
    (runPc = "returned" /\ runErr = NoErr /\ Len(injectedBy) = 1
        /\ injectedBy[1].by <= origLen) =>
        LET kk == injectedBy[1].by
            sub == injectedBy[1].sub
            expected == Fresh(1, kk) \o sub \o Fresh(kk + 1, origLen - kk)
        IN  /\ Invoked("ShouldRun") = expected
            /\ Invoked("Execute") = SelectSeq(expected, ShouldRunTrue)
            /\ NoDuplicates(Invoked("Execute"))

\* C1 witness: step kk < N injected two commands, and every step of the
\* grown plan was executed.
C1_Witness ==
    /\ runPc = "returned" /\ runErr = NoErr
    /\ Len(injectedBy) = 1
    /\ injectedBy[1].by < origLen
    /\ Len(injectedBy[1].sub) = 2
    /\ Len(Invoked("Execute")) = origLen + 2

\* C2: once a step has failed, Run has returned that step's error, the
\* failing call is the last call Run ever made, and nothing changes after.
C2_FailureTerminal ==
    /\ [](runErr # NoErr =>
            /\ runPc = "returned"
            /\ calls # <<>>
            /\ calls[Len(calls)].step = runErr.step
            /\ calls[Len(calls)].op =
                    (IF runErr.src = "ShouldRun" THEN "ShouldRun" ELSE "Execute")
            /\ \A i, j \in 1..Len(calls) :
                    (calls[i].op = calls[j].op /\ calls[i].step = calls[j].step) => i = j)
    /\ [][runPc = "returned" => UNCHANGED <<calls, runErr, runPc, plan, k>>]_vars

\* C2 witness: an Execute failed while steps of the plan, injected ones
\* among them, were still ahead.
C2_Witness ==
    /\ runPc = "returned"
    /\ runErr.src = "Execute"
    /\ Len(injectedBy) > 0
    /\ k + 1 < Len(plan)


\* C21: an iteration whose ShouldRun returns false makes that one call and
\* no other, and leaves b.state, the plan and the size metrics as they
\* were.
C21_SkipHasNoEffect ==
    [][(Len(calls') > Len(calls) /\ calls'[Len(calls) + 1].arg = 0
            /\ calls'[Len(calls) + 1].op = "ShouldRun") =>
        /\ calls' = Append(calls, Call("ShouldRun", plan[k + 1], 0))
        /\ UNCHANGED <<state, plan, ProducedSize, VirtualSize, runPc, runErr>>]_vars

\* C21 witness: a step was skipped after a step had extended the
\* environment and before a step that was executed.
C21_Witness ==
    \E i \in 2..Len(calls) :
        /\ calls[i].op = "ShouldRun" /\ calls[i].arg = 0
        /\ calls[i - 1].op = "Execute"
        /\ i < Len(calls) /\ calls[i + 1].step # calls[i].step
        /\ calls[Len(calls)].op = "Execute"
        /\ state.Env = MaxEnv

\* The sub-plan step c injected so far (none: the empty sub-plan).
SubOf(c) ==
    IF \E i \in 1..Len(injectedBy) : injectedBy[i].by = c
    THEN injectedBy[CHOOSE i \in 1..Len(injectedBy) : injectedBy[i].by = c].sub
    ELSE <<>>

\* The depth-first expansion of a step, and of a sequence of steps, by the
\* injections made so far.
RECURSIVE Expand(_), ExpandAll(_)
Expand(c) == <<c>> \o ExpandAll(SubOf(c))

ExpandAll(s) == IF s = <<>> THEN <<>> ELSE Expand(Head(s)) \o ExpandAll(Tail(s))

\* C23: the plan is the depth-first expansion of the original plan by the
\* injections made so far, each command in it once; the sub-plan of an
\* injecting step, original or injected, starts right after that step;
\* the injection queue is empty whenever the next ShouldRun is due; and
\* the steps are visited in the order of the plan.
C23_NestedInjection ==
    /\ plan = ExpandAll(Fresh(1, origLen))
    /\ NoDuplicates(plan)
    /\ \A i \in 1..Len(injectedBy) :
        \E p \in 1..Len(plan) :
            /\ plan[p] = injectedBy[i].by
            /\ p <= k
            /\ p + 1 <= Len(plan) /\ plan[p + 1] = injectedBy[i].sub[1]
            /\ \A j \in 1..Len(injectedBy) : injectedBy[j].by = injectedBy[i].by => j = i
    /\ runPc = "running" => state.InjectCommands = <<>>
    /\ Invoked("ShouldRun") = SubSeq(plan, 1, Len(Invoked("ShouldRun")))

\* C23 witness: an injected step injected a sub-plan itself, ahead of
\* what its parent had injected and of the original steps still to come,
\* and Run went through the whole plan.
C23_Witness ==
    /\ runPc = "returned" /\ runErr = NoErr
    /\ Len(injectedBy) = 2
    /\ injectedBy[1].by < origLen
    /\ Len(injectedBy[1].sub) = 2
    /\ injectedBy[2].by = injectedBy[1].sub[1]
    /\ Len(Invoked("Execute")) = Len(plan)

\* C26: Run returns; it evaluates ShouldRun at most once for each step of
\* the grown plan, so at most N plus the number of spliced commands times;
\* the loop index never decreases and the plan never shrinks.
C26_RunTerminates ==
    /\ <>(runPc = "returned")
    /\ [](/\ Len(plan) = origLen + (nextId - 1 - origLen)
          /\ Len(Invoked("ShouldRun")) <= Len(plan)
          /\ NoDuplicates(Invoked("ShouldRun"))
          /\ k <= Len(plan))
    /\ [][k' >= k /\ Len(plan') >= Len(plan)]_vars

\* C26 witness: Run returned nil after the plan had grown by as many
\* commands as the bound allows, each of them executed.
C26_Witness ==
    /\ runPc = "returned" /\ runErr = NoErr
    /\ Len(plan) = origLen + MaxTotalInject
    /\ Len(Invoked("Execute")) = Len(plan)
    /\ k = Len(plan)

\* The Config.Env of b.state just before call i: that of the state the
\* most recent Execute returned, or of the initial state when no step has
\* been executed yet.
EnvBefore(i) ==
    LET n == Cardinality({j \in 1..(i - 1) : calls[j].op = "Execute"})
    IN  IF n = 0 THEN 0 ELSE envLog[n].env

\* C20: a step that implements ReplaceEnv and whose ShouldRun is true gets
\* exactly one ReplaceEnv call, between its ShouldRun and its Execute, with
\* the environment of the state the most recently executed step returned;
\* no other step gets one.
C20_ReplaceEnvCurrent ==
    /\ \A i \in 1..Len(calls) :
        calls[i].op = "ReplaceEnv" =>
            /\ calls[i].arg = EnvBefore(i)
            /\ i > 1 /\ calls[i - 1] = Call("ShouldRun", calls[i].step, 1)
            /\ i < Len(calls) /\ calls[i + 1] = Call("Execute", calls[i].step, 0)
            /\ EnvReplacable(calls[i].step)
    /\ \A i \in 1..Len(calls) :
        (calls[i] = Call("ShouldRun", calls[i].step, 1) /\ EnvReplacable(calls[i].step)) =>
            Cardinality({j \in 1..Len(calls) :
                calls[j].op = "ReplaceEnv" /\ calls[j].step = calls[i].step}) = 1

\* C20 witness: a step was given the initial environment, a later step
\* extended it, and an injected step after that was given the extended one.
C20_Witness ==
    \E i, j \in 1..Len(calls) :
        /\ i < j
        /\ calls[i].op = "ReplaceEnv" /\ calls[i].arg = 0
        /\ calls[j].op = "ReplaceEnv" /\ calls[j].arg = MaxEnv
        /\ calls[j].step > origLen


\* ------------------------------- properties of DockerClient.EnsureContainer
\* Call q began after call p had returned an id for the same name, and no
\* container has been removed since p began.
Sequential(p, q) ==
    /\ p \in ec[q].after
    /\ ec[q].pc # "idle"
    /\ ec[p].name = ec[q].name
    /\ ec[p].err = "nil"
    /\ removals = ec[p].removalsAtCall

\* C18: the second of two sequential EnsureContainer calls for one name
\* issues no CreateContainer and no pull, and the id it returns is the id
\* the first call returned.
C18_EnsureIdempotent ==
    \A p, q \in Callers :
        Sequential(p, q) =>
            /\ ec[q].creates = 0
            /\ ec[q].pulls = 0
            /\ ec[q].pc \notin {"ensureImage", "pull", "display", "create"}
            /\ (ec[q].pc \in {"returned", "done"} /\ ec[q].err = "nil") => ec[q].ret = ec[p].ret

\* C18 witness: the first call created the container and the second call,
\* made after it, has returned.
C18_Witness ==
    /\ Sequential(1, 2)
    /\ ec[1].creates = 1
    /\ ec[2].pc = "returned"
    /\ ec[2].err = "nil"

\* C19: after getExportsContainer has returned an id, Build.exports holds
\* that container; after it has returned an error the list is as before.
C19_ExportTracked ==
    \A p \in Callers :
        (ec[p].pc = "done" /\ ec[p].name = "exports") =>
            IF ec[p].err = "nil"
            THEN \E i \in 1..Len(exports) : exports[i] = ec[p].ret
            ELSE exports = <<>>

\* Calls p and q were made for one name and ran at the same time, no
\* container was removed, and no engine call failed for a reason of its
\* own.
Concurrent(p, q) ==
    /\ p # q
    /\ ec[p].pc \in {"returned", "done"} /\ ec[q].pc \in {"returned", "done"}
    /\ ec[p].name = ec[q].name
    /\ p \notin ec[q].after /\ q \notin ec[p].after
    /\ removals = 0
    /\ ec[p].err \in {"nil", "CreateConflict"}
    /\ ec[q].err \in {"nil", "CreateConflict"}

\* C27: two concurrent EnsureContainer calls for one name issue at most
\* one CreateContainer between them and both return the same id and no
\* error.
C27_ConcurrentEnsureSafe ==
    \A p, q \in Callers :
        Concurrent(p, q) =>
            /\ ec[p].creates + ec[q].creates <= 1
            /\ ec[p].err = "nil" /\ ec[q].err = "nil"
            /\ ec[p].ret = ec[q].ret

\* C29: once the engine's pull has completed, PullImage returns, and with
\* it EnsureImage and EnsureContainer.
C29_PullReturns ==
    \A p \in Callers :
        (ec[p].pc = "display") ~> (ec[p].pc \in {"returned", "done"})

====
